---- MODULE Spec2Model ----
(***************************************************************************)
(* A model of sync.py: the location mapping, the name resolver, the        *)
(* download worker pool, and the sync and reconcile orchestrators.         *)
(*                                                                         *)
(* A file name is a sequence of one-character strings, so that lower-      *)
(* casing, splitext and the "-<n>" suffix are computed as the code         *)
(* computes them.  The output directory is the set of names of the regular *)
(* files directly in it (LOCATIONS_FILE and TOKEN_FILE excepted: the       *)
(* location file is the variable locations_file).                          *)
(***************************************************************************)
EXTENDS Integers, Sequences, FiniteSets, TLC

(* ------------------------------ bounds --------------------------------- *)
MaxList == 2        \* longest remote listing of the small specification
MaxThreads == 2     \* largest --download_threads of the small specification
MaxBatch == 41      \* largest batch of the large-batch specification

(* ------------------------- program constants --------------------------- *)
SaveEvery == 20     \* sync.py:373  pending_download_count % 20

(* ------------------------------ names ---------------------------------- *)
NameA == <<"a", ".", "j">>
NameUpperA == <<"A", ".", "j">>
NameHidden == <<".", "h">>
NameStray == <<"s", ".", "j">>

MediaIds == {1, 2}
Filenames == {NameA, NameUpperA}

(* str.lower(), character by character *)
LowerChar(c) ==
  CASE c = "A" -> "a"
    [] c = "J" -> "j"
    [] c = "H" -> "h"
    [] c = "S" -> "s"
    [] OTHER -> c

LowerCase(path) == [i \in DOMAIN path |-> LowerChar(path[i])]

NormalizedPathNoLower(path) == path

normalized_path(path) == LowerCase(path)

(* '{}'.format(n) for n >= 0: the decimal digits of n *)
DigitChar(d) ==
  CASE d = 0 -> "0" [] d = 1 -> "1" [] d = 2 -> "2" [] d = 3 -> "3"
    [] d = 4 -> "4" [] d = 5 -> "5" [] d = 6 -> "6" [] d = 7 -> "7"
    [] d = 8 -> "8" [] d = 9 -> "9"

RECURSIVE FormatInt(_)
FormatInt(n) ==
  IF n < 10 THEN <<DigitChar(n)>>
  ELSE FormatInt(n \div 10) \o <<DigitChar(n % 10)>>

(* os.path.splitext for a name without directory separators: the extension *)
(* starts at the last dot, unless only dots precede that dot.               *)
Dots(path) == {i \in DOMAIN path : path[i] = "."}

LastDot(path) == CHOOSE i \in Dots(path) : \A j \in Dots(path) : j <= i

SplitAt(path) ==
  IF Dots(path) = {} THEN Len(path) + 1
  ELSE IF \E k \in 1..(LastDot(path) - 1) : path[k] # "." THEN LastDot(path)
  ELSE Len(path) + 1

splitext(path) ==
  [base_name |-> SubSeq(path, 1, SplitAt(path) - 1),
   extension |-> SubSeq(path, SplitAt(path), Len(path))]

CandidateAfterExtension(preferred_name, suffix) ==
  IF suffix # 0
  THEN preferred_name \o <<"-">> \o FormatInt(suffix)
  ELSE preferred_name

(* '{}-{}{}'.format(base_name, suffix, extension), or the preferred name *)
Candidate(preferred_name, suffix) ==
  IF suffix # 0
  THEN splitext(preferred_name).base_name \o <<"-">> \o FormatInt(suffix)
         \o splitext(preferred_name).extension
  ELSE preferred_name

(* os.path.isfile(os.path.join(output_dir, relative)) *)
isfile(files, relative) == relative \in files

IsUnusedIgnoringDisk(files, used, relative) ==
  normalized_path(relative) \notin used

IsUnused(files, used, relative) ==
  /\ ~isfile(files, relative)
  /\ normalized_path(relative) \notin used

RECURSIVE FindFrom(_, _, _, _)
FindFrom(files, preferred_name, used, suffix) ==
  IF IsUnused(files, used, Candidate(preferred_name, suffix))
  THEN Candidate(preferred_name, suffix)
  ELSE FindFrom(files, preferred_name, used, suffix + 1)

(* ImageSync.find_unused_file: the relative path of the FileLocation *)
find_unused_file(files, preferred_name, normalized_used_locations) ==
  FindFrom(files, preferred_name, normalized_used_locations, 0)

(* ------------------------- values and files ---------------------------- *)
(* A Python value read from or written to the location file: a dict (kind  *)
(* "object", its entries in map), None, a falsy non-dict JSON value such as *)
(* null, [] or 0 (kind "null"), or a truthy non-dict such as [1] ("list").  *)
(* A file is its text: absent, unparseable ("invalid"), or a JSON value.    *)
EmptyMap == [k \in {} |-> k]

Value(kind, map) == [kind |-> kind, map |-> map]

PyNone == Value("None", EmptyMap)

Dict(map) == Value("object", map)

AbsentFile == Value("absent", EmptyMap)

(* json.dumps(value, indent=2): the text of a dict; identities and paths  *)
(* are str, which JSON writes and reads back unchanged                     *)
json_dumps(value) == Value(value.kind, value.map)

(* json.loads(text): raises on text that is not JSON *)
json_loads_raises(text) == text.kind = "invalid"

json_loads(text) == Value(text.kind, text.map)

(* read_json_file: None when the file is absent *)
read_json_file_raises(file) == file.kind # "absent" /\ json_loads_raises(file)

read_json_file(file) ==
  IF file.kind = "absent" THEN PyNone ELSE json_loads(file)

(* Python truth value: None, null, [], 0 and {} are falsy *)
Truthy(value) ==
  \/ value.kind = "list"
  \/ value.kind = "object" /\ value.map # EmptyMap

(* main, line 459: read_json_file(locations_file) or {} *)
LoadedLocations(file) ==
  IF Truthy(read_json_file(file)) THEN read_json_file(file) ELSE Dict(EmptyMap)

Values(map) == {map[k] : k \in DOMAIN map}

(* dict[key] = value *)
Put(map, key, value) ==
  [k \in DOMAIN map \cup {key} |-> IF k = key THEN value ELSE map[k]]

(* a list holding the elements of a finite set, in some fixed order *)
RECURSIVE ListOf(_)
ListOf(set) ==
  IF set = {} THEN <<>>
  ELSE LET x == CHOOSE y \in set : TRUE IN <<x>> \o ListOf(set \ {x})

Range(seq) == {seq[i] : i \in DOMAIN seq}

(* str.startswith('.') *)
IsHidden(name) == Len(name) > 0 /\ name[1] = "."

MediaItem(media_id, filename) == [media_id |-> media_id, filename |-> filename]

Download(image, relative_path) == [image |-> image, relative_path |-> relative_path]

DownloadResult(download, ok) == [download |-> download, success |-> ok]

(* ------------------------------ state ---------------------------------- *)
VARIABLES
  disk,                       \* names of the files in the output directory
  locations_file,             \* text of LOCATIONS_FILE
  remote,                     \* what list_images yields: a list of MediaItem
  args,                       \* the parsed command line
  transfer_faults,            \* transfers the network may still fail
  run,                        \* 1 in the first run of the program, 2 in the second
  pc,                         \* where the main thread of the process is
  exit_code,                  \* exit status of the last finished run, -1 before
  image_locations,            \* ImageSync.image_locations
  images_to_download,         \* sync: local images_to_download
  normalized_used_locations,  \* sync: local normalized_used_locations
  downloads,                  \* the batch: sync's or reconcile's downloads
  non_hidden_files,           \* reconcile: local non_hidden_files
  pending_download_queue,     \* download: indices into downloads
  completed_download_queue,   \* download: DownloadResult by index
  pending_download_count,     \* download: local pending_download_count
  success,                    \* download: local success
  threads,                    \* the DownloadThreads: pc and current download
  transfers,                  \* history: urlretrieve calls per download
  takers,                     \* history: threads that took each download
  results,                    \* history: results the coordinator received
  answers,                    \* history: answers to confirm(), lookups
  saves,                      \* history: completed counts at the loop's writes
  run_start,                  \* history: mapping, file and disk at run start
  last_run                    \* history: the previous run at its exit

world == <<disk, locations_file, remote, args, transfer_faults, run>>
main_vars == <<pc, exit_code, image_locations>>
sync_vars == <<images_to_download, normalized_used_locations>>
pool_vars == <<pending_download_queue, completed_download_queue,
               pending_download_count, success, threads>>
batch_hist == <<transfers, takers, results, saves>>
hist == <<answers, run_start, last_run>>

vars == <<disk, locations_file, remote, args, transfer_faults, run,
          pc, exit_code, image_locations,
          images_to_download, normalized_used_locations,
          downloads, non_hidden_files,
          pending_download_queue, completed_download_queue,
          pending_download_count, success, threads,
          transfers, takers, results, saves, answers, run_start, last_run>>

NoAnswers == [delete |-> "none", download |-> "none", lookups |-> TRUE]

NoRun == [reconcile |-> FALSE, image_locations |-> EmptyMap,
          locations_file |-> AbsentFile, failed |-> {}, distinct |-> TRUE,
          exit_code |-> -1]

(* the state of a process that has not yet run main *)
FreshProcess ==
  /\ pc = "main"
  /\ image_locations = Dict(EmptyMap)
  /\ images_to_download = <<>>
  /\ normalized_used_locations = {}
  /\ downloads = <<>>
  /\ non_hidden_files = {}
  /\ pending_download_queue = <<>>
  /\ completed_download_queue = <<>>
  /\ pending_download_count = 0
  /\ success = TRUE
  /\ threads = <<>>
  /\ transfers = <<>>
  /\ takers = <<>>
  /\ results = <<>>
  /\ saves = <<>>
  /\ answers = NoAnswers

(* ------------------------- initial states ------------------------------ *)
Listings(ids, names, n) ==
  UNION {[1..k -> {MediaItem(i, f) : i \in ids, f \in names}] : k \in 0..n}

(* the mappings a location file written by this program can hold: paths   *)
(* pairwise distinct after lower-casing                                    *)
Mappings(ids, paths) ==
  {m \in UNION {[d -> paths] : d \in SUBSET ids} :
     \A j, k \in DOMAIN m : j # k => LowerCase(m[j]) # LowerCase(m[k])}

(* the mappings of the initial location files, one for each shape up to   *)
(* the renaming of identities                                              *)
InitialMappings ==
  {m \in Mappings(MediaIds, {NameA, NameHidden}) :
     /\ DOMAIN m \in {{}, {1}, {1, 2}}
     /\ 2 \in DOMAIN m => m[1] = NameA}

LocationFiles ==
  {AbsentFile, Value("invalid", EmptyMap), Value("null", EmptyMap),
   Value("list", EmptyMap)}
  \cup {Dict(m) : m \in InitialMappings}

(* what every first run starts from *)
InitProcess ==
  /\ run = 1
  /\ exit_code = -1
  /\ run_start = [image_locations |-> EmptyMap,
                  locations_file |-> locations_file, disk |-> disk]
  /\ last_run = NoRun
  /\ FreshProcess

(* the directories a run starts from: any of the files a.j and s.j, or   *)
(* the hidden file .h with or without s.j                                  *)
InitialDisks ==
  SUBSET {NameA, NameStray} \cup {{NameHidden}, {NameHidden, NameStray}}

(* any small directory and location file, a short listing in which        *)
(* identities and filenames may repeat, either mode (reconcile does not    *)
(* read max_downloads)                                                     *)
InitSmall ==
  /\ disk \in InitialDisks
  /\ locations_file \in LocationFiles
  /\ remote \in Listings(MediaIds, Filenames, MaxList)
  /\ args \in {a \in [reconcile : BOOLEAN, max_downloads : {-1, 1},
                       download_threads : {1}] :
                 a.reconcile => a.max_downloads = -1}
  /\ transfer_faults = MaxList
  /\ InitProcess

(* a listing that uses the identities in order: one listing for each way  *)
(* identities can repeat in it, up to the renaming of identities           *)
FirstUse(listing) ==
  \A k \in DOMAIN listing : \A i \in 1..(listing[k].media_id - 1) :
    \E j \in 1..(k - 1) : listing[j].media_id = i

(* a first sync into an empty directory of a listing of items of the same *)
(* filename, with any number of threads                                    *)
InitPool ==
  /\ disk = {}
  /\ locations_file = AbsentFile
  /\ remote \in {l \in Listings(1..MaxList, {NameA}, MaxList) : FirstUse(l)}
  /\ args \in [reconcile : {FALSE}, max_downloads : {-1},
               download_threads : 0..MaxThreads]
  /\ transfer_faults = MaxList
  /\ InitProcess

Init == InitSmall \/ InitPool

(* ------------------------------ main ----------------------------------- *)
(* main, lines 458-468: load the location file, build ImageSync, dispatch *)
Main ==
  /\ pc = "main"
  /\ run_start' = [image_locations |-> LoadedLocations(locations_file).map,
                   locations_file |-> locations_file, disk |-> disk]
  /\ IF read_json_file_raises(locations_file)
     THEN /\ pc' = "error"
          /\ exit_code' = 1
          /\ UNCHANGED image_locations
     ELSE /\ image_locations' = LoadedLocations(locations_file)
          /\ pc' = IF args.reconcile THEN "reconcile" ELSE "sync"
          /\ UNCHANGED exit_code
  /\ UNCHANGED <<world, sync_vars, downloads, non_hidden_files, pool_vars,
                 batch_hist, answers, last_run>>

(* ImageSync.write_image_locations: the text json.dumps gives *)
write_image_locations(locations) == json_dumps(locations)

(* ---------------------------- download --------------------------------- *)
(* ImageSync.download, lines 349-359: fill the input queue, start the      *)
(* threads, success = True                                                 *)
DownloadStart(batch) ==
  /\ downloads' = batch
  /\ pending_download_queue' = [i \in 1..Len(batch) |-> i]
  /\ completed_download_queue' = <<>>
  /\ pending_download_count' = Len(batch)
  /\ threads' = [t \in 1..args.download_threads |->
                   [pc |-> "get", download |-> 0]]
  /\ success' = TRUE
  /\ transfers' = [i \in 1..Len(batch) |-> 0]
  /\ takers' = [i \in 1..Len(batch) |-> {}]
  /\ results' = <<>>
  /\ saves' = <<>>
  /\ pc' = "downloading"

RetryAfterFailure(t, d) == [pc |-> "transfer", download |-> d]

(* lines 116 and 97-98: after the failed result is put, the loop goes on   *)
(* to the next get(); the failed download is not taken up again            *)
AfterFailure(t, d) == [pc |-> "get", download |-> 0]

(* line 98: Queue.get removes the item it returns *)
Dequeue(queue) == Tail(queue)

EmptyOrLast(queue) == Len(queue) <= 1

(* line 98: Queue.get(False) raises queue.Empty when the queue is empty *)
QueueEmpty(queue) == queue = <<>>

(* DownloadThread.run, lines 97-98 and 117-119: take the next download     *)
(* without blocking; queue.Empty ends the thread                           *)
ThreadGet(t) ==
  /\ threads[t].pc = "get"
  /\ IF QueueEmpty(pending_download_queue)
     THEN /\ threads' = [threads EXCEPT ![t].pc = "done"]
          /\ UNCHANGED <<pending_download_queue, takers>>
     ELSE /\ threads' = [threads EXCEPT
                           ![t] = [pc |-> "transfer",
                                   download |-> Head(pending_download_queue)]]
          /\ pending_download_queue' = Dequeue(pending_download_queue)
          /\ takers' = [takers EXCEPT
                          ![Head(pending_download_queue)] = @ \cup {t}]
  /\ UNCHANGED <<world, main_vars, sync_vars, downloads, non_hidden_files,
                 completed_download_queue, pending_download_count, success,
                 transfers, results, saves, hist>>

(* lines 103-107: urlretrieve wrote the file; put a successful result *)
ThreadTransferOk(t) ==
  /\ threads[t].pc = "transfer"
  /\ LET d == threads[t].download IN
       /\ disk' = disk \cup {downloads[d].relative_path}
       /\ completed_download_queue' =
            Append(completed_download_queue, DownloadResult(d, TRUE))
       /\ transfers' = [transfers EXCEPT ![d] = @ + 1]
       /\ threads' = [threads EXCEPT ![t] = [pc |-> "get", download |-> 0]]
  /\ UNCHANGED <<locations_file, remote, args, transfer_faults, run,
                 main_vars, sync_vars, downloads, non_hidden_files,
                 pending_download_queue, pending_download_count, success,
                 takers, results, saves, hist>>

KeepPartial(files, relative_path) == files

(* lines 113-114: if os.path.isfile(path): os.remove(path) *)
RemovePartial(files, relative_path) == files \ {relative_path}

(* lines 108-116: urlretrieve raised, having created the file or not;      *)
(* remove the file if there is one and put a failed result                 *)
ThreadTransferFail(t) ==
  /\ threads[t].pc = "transfer"
  /\ transfer_faults > 0
  /\ transfer_faults' = transfer_faults - 1
  /\ LET d == threads[t].download IN
       /\ \E partial \in BOOLEAN :
            disk' = RemovePartial(
                      IF partial THEN disk \cup {downloads[d].relative_path}
                      ELSE disk,
                      downloads[d].relative_path)
       /\ completed_download_queue' =
            Append(completed_download_queue, DownloadResult(d, FALSE))
       /\ transfers' = [transfers EXCEPT ![d] = @ + 1]
       /\ threads' = [threads EXCEPT ![t] = AfterFailure(t, d)]
  /\ UNCHANGED <<locations_file, remote, args, run,
                 main_vars, sync_vars, downloads, non_hidden_files,
                 pending_download_queue, pending_download_count, success,
                 takers, results, saves, hist>>

RecordedIfSuccess(locations, result) ==
  IF result.success
  THEN Dict(Put(locations.map, downloads[result.download].image.media_id,
                downloads[result.download].relative_path))
  ELSE locations

SavesAfterDecrement(pending) == (pending - 1) % SaveEvery = 0

SavesLate(pending) == pending % (SaveEvery + 1) = 0

(* line 373: whether this iteration of the loop writes the location file *)
SavesNow(pending) == pending % SaveEvery = 0

(* line 369-370: the mapping with the result's entry set *)
Recorded(locations, result) ==
  Dict(Put(locations.map, downloads[result.download].image.media_id,
           downloads[result.download].relative_path))

AndSuccessInOrder(so_far, result) ==
  IF result.download = Len(results) + 1
  THEN so_far /\ result.success
  ELSE so_far

LastSuccess(so_far, result) == result.success

(* line 372: success = success and result.success *)
AndSuccess(so_far, result) == so_far /\ result.success

(* lines 469-470: sys.exit(1) when the mode's method returned False *)
ExitStatus(returned) == IF returned THEN 0 ELSE 1

(* ImageSync.download, lines 360-375: one iteration of the loop *)
DownloadLoop ==
  /\ pc = "downloading"
  /\ pending_download_count > 0
  /\ completed_download_queue # <<>>
  /\ LET result == Head(completed_download_queue) IN
       /\ completed_download_queue' = Tail(completed_download_queue)
       /\ image_locations' = Recorded(image_locations, result)
       /\ success' = AndSuccess(success, result)
       /\ results' = Append(results, result)
       /\ IF SavesNow(pending_download_count)
          THEN /\ locations_file' = write_image_locations(image_locations')
               /\ saves' = Append(saves, Len(results) + 1)
          ELSE UNCHANGED <<locations_file, saves>>
  /\ pending_download_count' = pending_download_count - 1
  /\ UNCHANGED <<disk, remote, args, transfer_faults, run, pc, exit_code,
                 sync_vars, downloads, non_hidden_files,
                 pending_download_queue, threads, transfers, takers, hist>>

(* lines 377-380, the caller's return (346, 433) and main's exit (469-470) *)
DownloadReturn ==
  /\ pc = "downloading"
  /\ pending_download_count = 0
  /\ locations_file' = write_image_locations(image_locations)
  /\ exit_code' = ExitStatus(success)
  /\ pc' = "exit"
  /\ UNCHANGED <<disk, remote, args, transfer_faults, run, image_locations,
                 sync_vars, downloads, non_hidden_files, pool_vars,
                 batch_hist, hist>>

(* ------------------------------ sync ----------------------------------- *)
AllImages(listing, locations) == listing

(* lines 327-329: the listed items whose identity is no key of the mapping *)
NewImages(listing, locations) ==
  SelectSeq(listing, LAMBDA i : i.media_id \notin DOMAIN locations.map)

ExceedsBudgetOffByOne(max_downloads, count) ==
  max_downloads # -1 /\ max_downloads <= count

(* line 330: the budget check *)
ExceedsBudget(max_downloads, count) ==
  max_downloads # -1 /\ max_downloads < count

(* ImageSync.sync, lines 327-338: list, check the budget, seed the set     *)
(* of used locations; .values() raises on a value that is no dict          *)
SyncList ==
  /\ pc = "sync"
  /\ images_to_download' = NewImages(remote, image_locations)
  /\ IF \/ ExceedsBudget(args.max_downloads, Len(images_to_download'))
        \/ image_locations.kind # "object"
     THEN /\ pc' = "error"
          /\ exit_code' = 1
          /\ UNCHANGED normalized_used_locations
     ELSE /\ normalized_used_locations' =
               {normalized_path(f) : f \in Values(image_locations.map)}
          /\ pc' = "reserving"
          /\ UNCHANGED exit_code
  /\ UNCHANGED <<world, image_locations, downloads, non_hidden_files,
                 pool_vars, batch_hist, hist>>

(* lines 339-343: one iteration of the reservation loop *)
Reserve ==
  /\ pc = "reserving"
  /\ Len(downloads) < Len(images_to_download)
  /\ LET image == images_to_download[Len(downloads) + 1]
         location == find_unused_file(disk, image.filename,
                                      normalized_used_locations)
     IN /\ normalized_used_locations' =
             normalized_used_locations \cup {normalized_path(location)}
        /\ downloads' = Append(downloads, Download(image, location))
  /\ UNCHANGED <<world, main_vars, images_to_download, non_hidden_files,
                 pool_vars, batch_hist, hist>>

(* line 344: the reservation loop is over, sync calls download *)
SyncDownload ==
  /\ pc = "reserving"
  /\ Len(downloads) = Len(images_to_download)
  /\ DownloadStart(downloads)
  /\ UNCHANGED <<world, exit_code, image_locations, sync_vars,
                 non_hidden_files, hist>>

(* ---------------------------- reconcile -------------------------------- *)
(* line 405: the files of the directory whose name does not start with '.' *)
NonHidden(files) == {f \in files : ~IsHidden(f)}

FilesToDeleteInverted(files, locations) ==
  {f \in NonHidden(files) : f \in Values(locations.map)}

(* lines 406-409 *)
FilesToDelete(files, locations) ==
  {f \in NonHidden(files) : f \notin Values(locations.map)}

EntriesWithFile(locations, non_hidden) ==
  {k \in DOMAIN locations.map : locations.map[k] \in non_hidden}

(* lines 415-417: the keys of the entries to download *)
EntriesToDownload(locations, non_hidden) ==
  {k \in DOMAIN locations.map : locations.map[k] \notin non_hidden}

ConfirmAlways(answer) == TRUE

(* confirm, lines 178-182: the accepted answer is "y" or "n"; True for "y" *)
confirm(answer) == answer = "y"

(* ImageSync.reconcile, lines 403-414: scan the directory, offer to        *)
(* delete the files no entry names; .values() raises on a non-dict         *)
ReconcileDelete(answer) ==
  /\ pc = "reconcile"
  /\ IF image_locations.kind # "object"
     THEN /\ pc' = "error"
          /\ exit_code' = 1
          /\ UNCHANGED <<disk, non_hidden_files, answers>>
     ELSE /\ non_hidden_files' = NonHidden(disk)
          /\ pc' = "reconcile_download"
          /\ UNCHANGED exit_code
          /\ IF FilesToDelete(disk, image_locations) = {}
             THEN UNCHANGED <<disk, answers>>
             ELSE /\ answers' = [answers EXCEPT !.delete = answer]
                  /\ disk' = IF confirm(answer)
                             THEN disk \ FilesToDelete(disk, image_locations)
                             ELSE disk
  /\ UNCHANGED <<locations_file, remote, args, transfer_faults, run,
                 image_locations, sync_vars, downloads, pool_vars,
                 batch_hist, run_start, last_run>>

(* lines 422-430: the downloads of the entries get_media_items found *)
Redownloads(locations, entries, found) ==
  LET keys == SelectSeq(ListOf(entries), LAMBDA k : k \in found)
  IN [i \in 1..Len(keys) |->
        Download(MediaItem(keys[i], locations.map[keys[i]]),
                 locations.map[keys[i]])]

(* lines 415-433: offer to download the entries without a file; found are  *)
(* the identities the remote lookup returns an item for                    *)
ReconcileDownload(answer, found) ==
  /\ pc = "reconcile_download"
  /\ LET entries == EntriesToDownload(image_locations, non_hidden_files) IN
       IF entries = {} \/ ~confirm(answer)
       THEN /\ found = {}
            /\ pc' = "exit"
            /\ exit_code' = ExitStatus(TRUE)
            /\ answers' = [answers EXCEPT
                             !.download = IF entries = {} THEN "none" ELSE answer]
            /\ UNCHANGED <<downloads, pool_vars, batch_hist>>
       ELSE /\ found \subseteq entries
            /\ answers' = [answers EXCEPT !.download = answer,
                                          !.lookups = (found = entries)]
            /\ DownloadStart(Redownloads(image_locations, entries, found))
            /\ UNCHANGED exit_code
  /\ UNCHANGED <<world, image_locations, sync_vars, non_hidden_files,
                 run_start, last_run>>

(* ------------------------------ runs ----------------------------------- *)
AllThreadsDone == \A t \in DOMAIN threads : threads[t].pc = "done"

(* the process has exited (its threads are not daemons); the program is    *)
(* run again, in either mode, over the same remote listing                 *)
Restart(reconcile) ==
  /\ pc = "exit"
  /\ AllThreadsDone
  /\ run = 1
  /\ run' = run + 1
  /\ args' = [args EXCEPT !.reconcile = reconcile]
  /\ last_run' = [reconcile |-> args.reconcile,
                  image_locations |-> image_locations.map,
                  locations_file |-> locations_file,
                  failed |-> {downloads[r.download] :
                                r \in {x \in Range(results) : ~x.success}},
                  distinct |-> \A i, j \in DOMAIN downloads :
                                 i # j => downloads[i].image.media_id
                                            # downloads[j].image.media_id,
                  exit_code |-> exit_code]
  /\ pc' = "main"
  /\ image_locations' = Dict(EmptyMap)
  /\ images_to_download' = <<>>
  /\ normalized_used_locations' = {}
  /\ downloads' = <<>>
  /\ non_hidden_files' = {}
  /\ pending_download_queue' = <<>>
  /\ completed_download_queue' = <<>>
  /\ pending_download_count' = 0
  /\ success' = TRUE
  /\ threads' = <<>>
  /\ transfers' = <<>>
  /\ takers' = <<>>
  /\ results' = <<>>
  /\ saves' = <<>>
  /\ answers' = NoAnswers
  /\ UNCHANGED <<disk, locations_file, remote, transfer_faults, exit_code,
                 run_start>>

Next ==
  \/ Main
  \/ SyncList
  \/ Reserve
  \/ SyncDownload
  \/ \E answer \in {"y", "n"} : ReconcileDelete(answer)
  \/ \E answer \in {"y", "n"}, found \in SUBSET MediaIds :
       ReconcileDownload(answer, found)
  \/ \E t \in DOMAIN threads : ThreadGet(t)
  \/ \E t \in DOMAIN threads : ThreadTransferOk(t)
  \/ \E t \in DOMAIN threads : ThreadTransferFail(t)
  \/ DownloadLoop
  \/ DownloadReturn
  \/ \E reconcile \in BOOLEAN : Restart(reconcile)

Spec == Init /\ [][Next]_vars

(* --------------------- one sync of a large batch ----------------------- *)
(* a first sync into an empty directory of up to MaxBatch items with       *)
(* distinct identities and the same filename, with one thread and at most  *)
(* one failing transfer                                                    *)
InitBatch ==
  /\ disk = {}
  /\ locations_file = AbsentFile
  /\ remote \in {[i \in 1..n |-> MediaItem(i, NameA)] : n \in 0..MaxBatch}
  /\ args = [reconcile |-> FALSE, max_downloads |-> -1, download_threads |-> 1]
  /\ transfer_faults = 1
  /\ InitProcess

NextBatch ==
  \/ Main
  \/ SyncList
  \/ Reserve
  \/ SyncDownload
  \/ \E t \in DOMAIN threads : ThreadGet(t)
  \/ \E t \in DOMAIN threads : ThreadTransferOk(t)
  \/ \E t \in DOMAIN threads : ThreadTransferFail(t)
  \/ DownloadLoop
  \/ DownloadReturn

SpecBatch == InitBatch /\ [][NextBatch]_vars

(* ============================== claims ================================= *)
DistinctLower(map) ==
  \A j, k \in DOMAIN map : j # k => LowerCase(map[j]) # LowerCase(map[k])

(* download() was called in this run *)
BatchRan ==
  \/ pc = "downloading"
  \/ pc = "exit" /\ (args.reconcile => answers.download = "y")

Failed == {r.download : r \in {x \in Range(results) : ~x.success}}

Occurrences(seq, x) == Cardinality({k \in DOMAIN seq : seq[k] = x})

Outcomes(i) ==
  Cardinality({k \in DOMAIN completed_download_queue :
                 completed_download_queue[k].download = i})
  + Cardinality({k \in DOMAIN results : results[k].download = i})

(* C1: when the mapping loaded at the start of the run has paths that are  *)
(* pairwise distinct after lower-casing, then in every state the paths of  *)
(* the mapping in memory and of the mapping in the location file are       *)
(* pairwise distinct after lower-casing, the paths of the batch are        *)
(* pairwise distinct after lower-casing, and no path of the batch equals,  *)
(* after lower-casing, the path the mapping holds for another identity.    *)
C1_PathsDistinct ==
  DistinctLower(run_start.image_locations) =>
    /\ DistinctLower(image_locations.map)
    /\ DistinctLower(locations_file.map)
    /\ \A i, j \in DOMAIN downloads :
         i # j => LowerCase(downloads[i].relative_path)
                    # LowerCase(downloads[j].relative_path)
    /\ \A i \in DOMAIN downloads : \A k \in DOMAIN image_locations.map :
         k # downloads[i].image.media_id =>
           LowerCase(image_locations.map[k])
             # LowerCase(downloads[i].relative_path)

(* C1 witness: a sync has returned whose batch held two items of distinct  *)
(* identity with filenames that differ only by case, both now mapped.      *)
C1_Witness ==
  /\ pc = "exit"
  /\ ~args.reconcile
  /\ Len(downloads) = 2
  /\ downloads[1].image.filename # downloads[2].image.filename
  /\ LowerCase(downloads[1].image.filename)
       = LowerCase(downloads[2].image.filename)
  /\ Cardinality(DOMAIN image_locations.map) = 2
  /\ locations_file = Dict(image_locations.map)

(* C2: in download(), every download of the batch is either still on the   *)
(* input queue or was taken by exactly one thread, is transferred at most  *)
(* once, and has one outcome per transfer; when download() has returned    *)
(* every download was transferred exactly once and the coordinator         *)
(* received exactly one result for it, whatever failed.                    *)
C2_ExactlyOnce ==
  BatchRan =>
    /\ \A i \in DOMAIN downloads :
         /\ Occurrences(pending_download_queue, i) + Cardinality(takers[i]) = 1
         /\ transfers[i] <= 1
         /\ Outcomes(i) = transfers[i]
         /\ pc = "exit" =>
              /\ transfers[i] = 1
              /\ Occurrences([k \in DOMAIN results |-> results[k].download], i)
                   = 1
    /\ pc = "exit" => Len(results) = Len(downloads)

(* C2 witness: download() has returned for a batch of two downloads taken  *)
(* by two different threads, one of which failed.                          *)
C2_Witness ==
  /\ pc = "exit"
  /\ BatchRan
  /\ Len(downloads) = 2
  /\ takers[1] # takers[2]
  /\ Cardinality(Failed) = 1

(* the steps of one DownloadThread *)
ThreadStep(t) ==
  /\ t \in DOMAIN threads
  /\ \/ ThreadGet(t)
     \/ ThreadTransferOk(t)
     \/ ThreadTransferFail(t)

(* Spec with the scheduling the claim assumes: every started thread keeps  *)
(* running (threading.Thread.start), every transfer finishes, and the      *)
(* coordinator keeps running                                               *)
FairSpec ==
  /\ Spec
  /\ \A t \in 1..MaxThreads : WF_vars(ThreadStep(t))
  /\ WF_vars(DownloadLoop)
  /\ WF_vars(DownloadReturn)

(* C3: under fair scheduling and transfers that finish, download()         *)
(* returns, for every number of threads the command line accepts.          *)
C3_DownloadReturns == (pc = "downloading") ~> (pc = "exit")

(* C3, for one thread or more: download() returns and every thread ends.   *)
C3_ReturnsWithThreads ==
  (pc = "downloading" /\ args.download_threads >= 1)
    ~> (pc = "exit" /\ AllThreadsDone)

DistinctIdentities ==
  \A i, j \in DOMAIN downloads :
    i # j => downloads[i].image.media_id # downloads[j].image.media_id

(* download() was called in this run and has returned *)
DownloadReturned == pc = "exit" /\ (args.reconcile => answers.download = "y")

AllMapped ==
  \A i \in DOMAIN downloads :
    /\ downloads[i].image.media_id \in DOMAIN image_locations.map
    /\ image_locations.map[downloads[i].image.media_id]
         = downloads[i].relative_path

NoFileOfFailed ==
  \A i \in Failed : ~isfile(disk, downloads[i].relative_path)

(* C4 as stated: when download() has returned the mapping holds            *)
(* identity -> reserved path for every download of the batch, and no file  *)
(* exists at the path of a failed download, for any batch.                 *)
C4_AllMappedAnyBatch == DownloadReturned => AllMapped /\ NoFileOfFailed

(* C4 as amended: the same for any batch whose downloads have pairwise     *)
(* distinct identities.                                                    *)
C4_AllMapped ==
  DownloadReturned /\ DistinctIdentities => AllMapped /\ NoFileOfFailed

(* C4 witness: download() has returned for a batch of two downloads of     *)
(* distinct identity, one failed and one not.                              *)
C4_Witness ==
  /\ DownloadReturned
  /\ DistinctIdentities
  /\ Len(downloads) = 2
  /\ Cardinality(Failed) = 1
  /\ AllMapped
  /\ \E i \in DOMAIN downloads : isfile(disk, downloads[i].relative_path)

(* the number of listed items whose identity is no key of the mapping the  *)
(* run started with                                                        *)
PendingNew ==
  Cardinality({i \in DOMAIN remote :
                 remote[i].media_id \notin DOMAIN run_start.image_locations})

OverBudget == args.max_downloads # -1 /\ PendingNew > args.max_downloads

SyncListed ==
  /\ ~args.reconcile
  /\ pc \notin {"main", "sync"}
  /\ run_start.locations_file.kind \notin {"invalid", "list"}

(* C5: a sync whose pending new items exceed max_downloads (not -1) fails  *)
(* with nothing reserved, nothing enqueued, no thread started, and the     *)
(* mapping and the location file as they were at the start of the run; a   *)
(* sync within the budget goes on to reserve and download.                 *)
C5_Budget ==
  SyncListed =>
    IF OverBudget
    THEN /\ pc = "error"
         /\ downloads = <<>>
         /\ normalized_used_locations = {}
         /\ pending_download_queue = <<>>
         /\ threads = <<>>
         /\ image_locations.map = run_start.image_locations
         /\ locations_file = run_start.locations_file
    ELSE pc \in {"reserving", "downloading", "exit"}

(* C5 witness: a sync over a location file that holds an entry has failed  *)
(* the budget check with two pending items and max_downloads = 1.          *)
C5_Witness ==
  /\ SyncListed
  /\ OverBudget
  /\ pc = "error"
  /\ PendingNew = 2
  /\ locations_file.kind = "object"
  /\ locations_file.map # EmptyMap

(* C5 witness of the other branch: the budget is met exactly and the sync  *)
(* has gone on to download.                                                *)
C5_WitnessWithin ==
  /\ SyncListed
  /\ args.max_downloads = PendingNew
  /\ pc = "downloading"

BothSync == run = 2 /\ ~args.reconcile /\ ~last_run.reconcile

(* C6: in a second sync that follows a sync over the same listing, no      *)
(* download is enqueued, and the mapping in memory (once loaded) and the   *)
(* location file stay what they were when the first sync returned.         *)
C6_Idempotent ==
  BothSync =>
    /\ locations_file = last_run.locations_file
    /\ locations_file = Dict(last_run.image_locations)
    /\ pc # "main" =>
         /\ image_locations.map = last_run.image_locations
         /\ images_to_download = <<>>
         /\ downloads = <<>>
         /\ pending_download_queue = <<>>
         /\ pc # "error"

(* C6 witness: the second sync has returned after a first sync in which a  *)
(* download failed and another did not.                                    *)
C6_Witness ==
  /\ BothSync
  /\ pc = "exit"
  /\ last_run.failed # {}
  /\ Cardinality(DOMAIN image_locations.map) = 2
  /\ \E k \in DOMAIN image_locations.map : isfile(disk, image_locations.map[k])

(* the preferred names find_unused_file is tried on *)
PreferredNames == Filenames \cup {NameHidden, NameStray}

ReconciledAllYes ==
  /\ args.reconcile
  /\ pc = "exit"
  /\ answers.delete # "n"
  /\ answers.download # "n"
  /\ answers.lookups
  /\ exit_code = 0

(* C8 as stated: after such a run the non-hidden files of the directory    *)
(* are exactly the relative paths of the mapping, and the mapping is what  *)
(* it was before the run.                                                  *)
C8_FilesAreMapping ==
  ReconciledAllYes =>
    /\ NonHidden(disk) = Values(image_locations.map)
    /\ image_locations.map = run_start.image_locations

(* C8 as amended: after such a run the non-hidden files of the directory   *)
(* are exactly the relative paths of the mapping that do not start with    *)
(* '.', every relative path of the mapping has a file, and the mapping is  *)
(* what it was before the run.                                             *)
C8_FilesAreNonHiddenMapping ==
  ReconciledAllYes =>
    /\ NonHidden(disk) = NonHidden(Values(image_locations.map))
    /\ Values(image_locations.map) \subseteq disk
    /\ image_locations.map = run_start.image_locations

(* C8 witness: the run started with a file no entry names and an entry     *)
(* without a file beside an entry with one; the file was deleted and the   *)
(* entry downloaded.                                                       *)
C8_Witness ==
  /\ ReconciledAllYes
  /\ answers.delete = "y"
  /\ answers.download = "y"
  /\ NameStray \in run_start.disk
  /\ Cardinality(DOMAIN image_locations.map) = 2
  /\ \E k \in DOMAIN image_locations.map :
       image_locations.map[k] \in NonHidden(run_start.disk)
  /\ \E k \in DOMAIN image_locations.map :
       /\ ~IsHidden(image_locations.map[k])
       /\ image_locations.map[k] \notin run_start.disk
  /\ NonHidden(disk) = Values(image_locations.map)

(* the entries of the mapping in memory that the location file lacks *)
Unsaved ==
  {k \in DOMAIN image_locations.map :
     ~ /\ locations_file.kind = "object"
       /\ k \in DOMAIN locations_file.map
       /\ locations_file.map[k] = image_locations.map[k]}

CorruptAtStart == run_start.locations_file.kind \in {"invalid", "null", "list"}

(* C10: a run that finds a location file which is not a mapping stops with *)
(* an error: it never goes on with a mapping (an empty one), and it lists, *)
(* reserves and downloads nothing.                                         *)
C10_CorruptFileStops ==
  CorruptAtStart /\ pc # "main" =>
    /\ pc = "error" \/ image_locations.kind # "object"
    /\ images_to_download = <<>>
    /\ downloads = <<>>
    /\ threads = <<>>

(* what does hold: an unparseable location file stops the run in main *)
C10_InvalidFileStops ==
  run_start.locations_file.kind = "invalid" /\ pc # "main" =>
    pc = "error" /\ images_to_download = <<>> /\ downloads = <<>>

(* C11: in download() success is true exactly when every outcome received  *)
(* so far succeeded; when download() has returned every outcome of the     *)
(* batch was received and the exit status is non-zero exactly when some    *)
(* outcome failed, the empty batch giving status 0; a reconcile that ran   *)
(* no batch exits with status 0.                                           *)
C11_SuccessIsAnd ==
  /\ BatchRan => (success <=> \A k \in DOMAIN results : results[k].success)
  /\ DownloadReturned =>
       /\ Len(results) = Len(downloads)
       /\ exit_code # 0 <=> \E k \in DOMAIN results : ~results[k].success
       /\ downloads = <<>> => exit_code = 0
  /\ pc = "exit" /\ ~DownloadReturned => exit_code = 0

(* C11 witness: download() has returned for a batch of two whose first     *)
(* outcome failed and whose second succeeded; the exit status is 1.        *)
C11_Witness ==
  /\ DownloadReturned
  /\ Len(results) = 2
  /\ ~results[1].success
  /\ results[2].success
  /\ ~success
  /\ exit_code = 1

(* the files reconcile should offer to delete: the non-hidden files that   *)
(* were in the directory when the run started and that no entry names      *)
ExpectedDeletions ==
  {f \in run_start.disk :
     ~IsHidden(f) /\ f \notin Values(image_locations.map)}

(* the entries whose relative path has no file in the directory *)
MissingEntries ==
  {k \in DOMAIN image_locations.map : ~isfile(disk, image_locations.map[k])}

(* no transfer of the batch has run yet: the directory is as download()    *)
(* found it                                                                *)
BatchUntouched == \A i \in DOMAIN transfers : transfers[i] = 0

(* C12, deletions: reconcile asks about deleting exactly when a non-hidden *)
(* file is no value of the mapping, and on yes removes exactly those files.*)
C12_Deletions ==
  args.reconcile /\ pc \in {"reconcile_download", "downloading", "exit"} =>
    /\ answers.delete = "none" <=> ExpectedDeletions = {}
    /\ answers.delete = "y" /\ BatchUntouched =>
         run_start.disk \ disk = ExpectedDeletions

(* C12: the deletions are as above, and reconcile asks about downloading   *)
(* exactly when some entry's path has no file in the directory; on yes,    *)
(* with every lookup answered, the batch holds exactly those entries.      *)
C12_ReconcileProposals ==
  /\ C12_Deletions
  /\ args.reconcile /\ pc = "exit" /\ ~DownloadReturned =>
       (answers.download = "none" <=> MissingEntries = {})
  /\ args.reconcile /\ pc = "downloading" /\ BatchUntouched =>
       /\ MissingEntries # {}
       /\ answers.lookups =>
            {downloads[i].image.media_id : i \in DOMAIN downloads}
              = MissingEntries

(* a step of reconcile()'s own code, before it calls download() *)
ReconcileStep == pc \in {"reconcile", "reconcile_download"}

Numeral(k) ==
  LET digit == [d \in 0..9 |->
                  <<"0", "1", "2", "3", "4", "5", "6", "7", "8", "9">>[d + 1]]
  IN IF k < 10 THEN <<digit[k]>> ELSE <<digit[k \div 10], digit[k % 10]>>

(* base-k.ext for a listed filename, which is one character, a dot and one *)
(* character; the filename itself for k = 0                                *)
Numbered(name, k) ==
  IF k = 0 THEN name
  ELSE <<name[1], "-">> \o Numeral(k) \o <<name[2], name[3]>>

(* the lower-cased paths reserved before the i-th request of the batch:    *)
(* those of the mapping and those handed out to the requests before it     *)
ReservedBefore(i) ==
  {LowerCase(v) : v \in Values(image_locations.map)}
    \cup {LowerCase(downloads[j].relative_path) : j \in 1..(i - 1)}

FreeAt(i, path) == path \notin disk /\ LowerCase(path) \notin ReservedBefore(i)

(* C14: in the reservation loop, the name reserved for the i-th request is *)
(* the preferred name when it is free, and otherwise base-k.ext for the    *)
(* smallest k >= 1 that is free; when the mapping is empty, the requests   *)
(* up to the i-th all prefer the same name and no file name, name-1, ...   *)
(* exists, the i-th reserved name is name-(i-1).ext (name.ext for i = 1).  *)
C14_SmallestFree ==
  pc = "reserving" =>
    \A i \in DOMAIN downloads :
      LET name == downloads[i].image.filename
          most == Cardinality(disk) + Cardinality(DOMAIN image_locations.map) + i
      IN /\ \E k \in 0..most :
              /\ downloads[i].relative_path = Numbered(name, k)
              /\ FreeAt(i, Numbered(name, k))
              /\ \A j \in 0..(k - 1) : ~FreeAt(i, Numbered(name, j))
         /\ (/\ image_locations.map = EmptyMap
             /\ \A j \in 1..i : downloads[j].image.filename = name
             /\ \A j \in 0..(i - 1) : Numbered(name, j) \notin disk)
            => downloads[i].relative_path = Numbered(name, i - 1)

(* C14 witness: with an empty mapping and no file a.j, the name a.j was    *)
(* requested twice and a.j, then a-1.j were reserved.                      *)
C14_Witness ==
  /\ pc = "reserving"
  /\ image_locations.map = EmptyMap
  /\ NameA \notin disk
  /\ Len(downloads) = 2
  /\ downloads[1].image.filename = NameA
  /\ downloads[2].image.filename = NameA
  /\ downloads[1].relative_path = <<"a", ".", "j">>
  /\ downloads[2].relative_path = <<"a", "-", "1", ".", "j">>

(* C14 for a long batch: the i-th of up to MaxBatch requests of a.j gets   *)
(* a-(i-1).j, two-digit suffixes included                                  *)
C14_LongBatch ==
  \A i \in DOMAIN downloads :
    downloads[i].relative_path = Numbered(NameA, i - 1)

(* the numbers of completed outcomes at which the loop has written the     *)
(* location file so far                                                    *)
SavedAt == Range(saves)

(* C15 as stated: the loop's writes so far are those after the 20th, 40th, *)
(* ... completed outcome.                                                  *)
C15_SavesAtMultiples ==
  BatchRan => SavedAt = {c \in 1..Len(results) : c % 20 = 0}

(* C15 as amended: the loop writes the file after an outcome exactly when  *)
(* the number of outcomes not yet completed, that one included, is a       *)
(* multiple of 20; the file then holds the mapping; and the file holds the *)
(* mapping when download() has returned.                                   *)
C15_SavesAtRemainingMultiples ==
  BatchRan =>
    /\ SavedAt = {c \in 1..Len(results) : (Len(downloads) - c + 1) % 20 = 0}
    /\ Len(results) \in SavedAt => locations_file = Dict(image_locations.map)
    /\ DownloadReturned => locations_file = Dict(image_locations.map)

(* C15 witness: in a batch of 41 the loop has written the file after the   *)
(* 2nd and after the 22nd outcome.                                         *)
C15_Witness ==
  /\ pc = "downloading"
  /\ Len(downloads) = 41
  /\ saves = <<2, 22>>

(* the order of the phases of a run: main, then listing ("sync"),          *)
(* reserving, downloading and the exit after the last write; or the two    *)
(* prompts of reconcile, downloading and the exit                          *)
PhaseOrder ==
  {<<"main", "sync">>, <<"main", "reconcile">>, <<"main", "error">>,
   <<"sync", "reserving">>, <<"sync", "error">>,
   <<"reserving", "downloading">>,
   <<"reconcile", "reconcile_download">>, <<"reconcile", "error">>,
   <<"reconcile_download", "downloading">>, <<"reconcile_download", "exit">>,
   <<"downloading", "exit">>, <<"exit", "main">>}

Taken == {i \in DOMAIN downloads : takers[i] # {}}

(* C16: the phases follow one another in the order listing, reserving,     *)
(* downloading, persisted; no worker exists before downloading; when the   *)
(* workers exist every name of the batch is reserved and every task is on  *)
(* the input queue or taken; afterwards the batch does not change and the  *)
(* queue only loses tasks from its head; and a worker has exited only when *)
(* the queue is empty and every task has been taken by some worker.        *)
C16_Phases ==
  /\ [](/\ pc \in {"main", "sync", "reserving", "reconcile",
                    "reconcile_download"} => threads = <<>>
        /\ pc = "downloading" =>
             /\ ~args.reconcile => Len(downloads) = Len(images_to_download)
             /\ Range(pending_download_queue) \cup Taken = DOMAIN downloads
             /\ Range(pending_download_queue) \cap Taken = {}
        /\ \A t \in DOMAIN threads :
             threads[t].pc = "done" =>
               pending_download_queue = <<>> /\ Taken = DOMAIN downloads
        /\ DownloadReturned => locations_file = Dict(image_locations.map))
  /\ [][/\ pc' # pc => <<pc, pc'>> \in PhaseOrder
        /\ pc = "downloading" =>
             /\ downloads' = downloads
             /\ \/ pending_download_queue' = pending_download_queue
                \/ /\ pending_download_queue # <<>>
                   /\ pending_download_queue' = Tail(pending_download_queue)
             /\ DOMAIN threads' = DOMAIN threads]_vars

(* C16 witness: of two workers on a batch of two, one has exited while the *)
(* other is still transferring the last task.                              *)
C16_Witness ==
  /\ pc = "downloading"
  /\ Len(downloads) = 2
  /\ Len(threads) = 2
  /\ threads[1].pc = "done"
  /\ threads[2].pc = "transfer"
  /\ threads[2].download = 2

BatchIds == {downloads[i].image.media_id : i \in DOMAIN downloads}

PathOf(id) ==
  downloads[CHOOSE i \in DOMAIN downloads : downloads[i].image.media_id = id]
    .relative_path

(* the mapping the run started with, with identity -> reserved path set    *)
(* for every task of the batch: a function of the batch alone              *)
MappingWithBatch ==
  [k \in DOMAIN run_start.image_locations \cup BatchIds |->
     IF k \in BatchIds THEN PathOf(k) ELSE run_start.image_locations[k]]

(* C17: when download() has returned for a batch of pairwise distinct      *)
(* identities, the mapping is the starting mapping with every task's entry *)
(* set, the location file holds that mapping, and the success flag is true *)
(* exactly when no task failed: none of the three depends on the order in  *)
(* which the outcomes arrived or on how many workers ran.                  *)
C17_OrderIndependent ==
  DownloadReturned /\ DistinctIdentities =>
    /\ image_locations.map = MappingWithBatch
    /\ locations_file = Dict(MappingWithBatch)
    /\ success <=> \A i \in DOMAIN downloads :
                     \A k \in DOMAIN results :
                       results[k].download = i => results[k].success

(* C17 witness: download() has returned for a batch of two, run by two     *)
(* workers, whose second task's outcome arrived first and was the failure. *)
C17_Witness ==
  /\ DownloadReturned
  /\ DistinctIdentities
  /\ Len(threads) = 2
  /\ Len(results) = 2
  /\ results[1] = DownloadResult(2, FALSE)
  /\ results[2] = DownloadResult(1, TRUE)

(* this run is a reconcile that follows a sync *)
ReconcileAfterSync == run = 2 /\ args.reconcile /\ ~last_run.reconcile

ReconcileAsked == pc \in {"downloading", "exit"}

ReconcileConfirmed ==
  ReconcileAsked /\ answers.download = "y" /\ answers.lookups

(* after a sync, every failed download has its entry and no file *)
FailedEntryWithoutFile ==
  \A i \in Failed :
    /\ downloads[i].image.media_id \in DOMAIN image_locations.map
    /\ ~isfile(disk, image_locations.map[downloads[i].image.media_id])

(* in the reconcile after the sync: the prompt to download is put, on yes  *)
(* with every lookup answered the entry is in the batch, and when that     *)
(* batch has returned without a failure the file exists and the mapping is *)
(* the one the sync left                                                   *)
FailedIsRedownloaded(d) ==
  /\ ReconcileAsked => answers.download # "none"
  /\ ReconcileConfirmed =>
       \E i \in DOMAIN downloads :
         /\ downloads[i].image.media_id = d.image.media_id
         /\ downloads[i].relative_path
              = last_run.image_locations[d.image.media_id]
  /\ ReconcileConfirmed /\ pc = "exit" /\ Failed = {} =>
       /\ isfile(disk, image_locations.map[d.image.media_id])
       /\ image_locations.map = last_run.image_locations

(* C18 as stated: for any sync in which a download failed.                 *)
C18_FailedRecoveredAnyListing ==
  /\ DownloadReturned /\ ~args.reconcile => FailedEntryWithoutFile
  /\ ReconcileAfterSync => \A d \in last_run.failed : FailedIsRedownloaded(d)

(* C18 as amended: the same for a sync whose batch has pairwise distinct   *)
(* identities.                                                             *)
C18_FailedRecovered ==
  /\ DownloadReturned /\ ~args.reconcile /\ DistinctIdentities =>
       FailedEntryWithoutFile
  /\ ReconcileAfterSync /\ last_run.distinct =>
       \A d \in last_run.failed : FailedIsRedownloaded(d)

(* C18 witness: the reconcile after a sync with a failed download has      *)
(* downloaded that entry again and its file now exists.                    *)
C18_Witness ==
  /\ ReconcileAfterSync
  /\ last_run.distinct
  /\ ReconcileConfirmed
  /\ pc = "exit"
  /\ Failed = {}
  /\ \E d \in last_run.failed :
       /\ isfile(disk, d.relative_path)
       /\ image_locations.map[d.image.media_id] = d.relative_path

(* identities are distinct within the remote listing *)
DistinctListing ==
  \A i, j \in DOMAIN remote : i # j => remote[i].media_id # remote[j].media_id

(* every identity -> path pair of the mapping before is in the mapping after *)
Keeps(before, after) ==
  \A k \in DOMAIN before : k \in DOMAIN after /\ after[k] = before[k]

(* C19: when the identities of the listing are distinct, every step of a   *)
(* run keeps every pair of the mapping in memory and every pair of the     *)
(* location file, and a step that writes the file writes every pair the    *)
(* mapping in memory held; and the mapping a run works with keeps every    *)
(* pair the run before it ended with.                                      *)
C19_EntriesKept ==
  /\ [][DistinctListing /\ pc # "exit" =>
          /\ Keeps(image_locations.map, image_locations'.map)
          /\ Keeps(locations_file.map, locations_file'.map)
          /\ locations_file' # locations_file =>
               Keeps(image_locations.map, locations_file'.map)]_vars
  /\ [](DistinctListing /\ run = 2 /\ pc \notin {"main", "error"} =>
          Keeps(last_run.image_locations, image_locations.map))
  /\ [](DistinctListing /\ run = 2 =>
          Keeps(last_run.locations_file.map, locations_file.map))

(* C19 witness: a sync that follows a reconcile has ended with a failed    *)
(* download; the mapping has the pairs the reconcile ended with and more.  *)
C19_Witness ==
  /\ DistinctListing
  /\ run = 2
  /\ last_run.reconcile
  /\ ~args.reconcile
  /\ pc = "exit"
  /\ Failed # {}
  /\ last_run.image_locations # EmptyMap
  /\ Keeps(last_run.image_locations, image_locations.map)
  /\ DOMAIN image_locations.map # DOMAIN last_run.image_locations
  /\ locations_file = Dict(image_locations.map)

(* the files that were in the directory when download() was called: those  *)
(* the run started with, less the ones reconcile deleted                   *)
DiskAtBatchStart ==
  IF args.reconcile /\ answers.delete = "y"
  THEN run_start.disk \ ExpectedDeletions
  ELSE run_start.disk

(* C20: whatever fails, every file that was in the directory when the      *)
(* batch started is still there during and after the batch.                *)
C20_FailureKeepsFiles == BatchRan => DiskAtBatchStart \subseteq disk

(* what does hold: the same in sync, where every task's path had no file   *)
(* when it was reserved                                                    *)
C20_SyncKeepsFiles == BatchRan /\ ~args.reconcile => run_start.disk \subseteq disk

====
